---- MODULE Spec2Model ----
(***************************************************************************)
(* Stake tracking and validator-set delta computation of the polybft       *)
(* stake manager (stakeManager, validatorStakeMap).                        *)
(*                                                                         *)
(* A types.Address is modelled as a fixed-length byte string, a *big.Int   *)
(* as an integer, a *bls.PublicKey as NilKey (nil) or a key value, a Go    *)
(* map as a function, and the iteration order of a Go map as an input:     *)
(* an arbitrary enumeration of its keys.                                   *)
(***************************************************************************)
EXTENDS Integers, Sequences, FiniteSets, TLC

VARIABLES
    store,                \* State.StakeStore: the persisted full validator set
    maxValidatorSetSize,  \* stakeManager.maxValidatorSetSize
    ret,                  \* what the last call of the stake manager returned
    oldValidatorSet,      \* argument of the last UpdateValidatorSet
    delta,                \* delta returned by the last UpdateValidatorSet
    deltaAgain,           \* delta of a second computation on the same inputs
    stakeMap,             \* a validatorStakeMap being worked on
    iterOrder,            \* order in which the map above is ranged over
    pending,              \* transfer events still to be applied to stakeMap
    applied,              \* transfer events already applied to stakeMap
    fullValidatorSet,     \* the set stakeMap was built from
    activeValidators,     \* result of getActiveValidators on stakeMap
    fullBlock,            \* req.FullBlock.Receipts of the last PostBlock
    extracted,            \* what getTransferEventsFromReceipts made of them
    pc,                   \* where a PostBlock and an UpdateValidatorSet that
                          \* run side by side have got to
    loaded,               \* the full set that UpdateValidatorSet has loaded
    messages,             \* SAMPool.messages: index -> hash -> sam set
    lastProcessedIndex,   \* SAMPool.lastProcessedIndex
    verifier,             \* the verifier the pool was built with
    heap,                 \* the ValidatorMetadata objects in memory, by reference
    committee,            \* the caller's AccountSet: references into heap
    kept,                 \* the references the Store holds its full set by
    locals,               \* the local variables of an UpdateValidatorSet
    aaPool,               \* AAPool: the transactions waiting to be relayed
    txs,                  \* the AAStateTransaction objects, by ID
    aaState,              \* AATxState: what state.Update was handed, call by call
    jobs                  \* the executeJob goroutines, by the ID of their transaction

vars == <<store, maxValidatorSetSize, ret, oldValidatorSet, delta, deltaAgain,
          stakeMap, iterOrder, pending, applied, fullValidatorSet,
          activeValidators, fullBlock, extracted, pc, loaded, messages,
          lastProcessedIndex, verifier, heap, committee, kept, locals,
          aaPool, txs, aaState, jobs>>

managerVars == <<store, maxValidatorSetSize, ret, oldValidatorSet, delta,
                 deltaAgain>>
mapVars == <<stakeMap, iterOrder, pending, applied, fullValidatorSet,
             activeValidators>>
blockVars == <<fullBlock, extracted>>
raceVars == <<pc, loaded>>
poolVars == <<messages, lastProcessedIndex, verifier>>
copyVars == <<heap, committee, kept, locals>>
relayerVars == <<aaPool, txs, aaState, jobs>>

----------------------------------------------------------------------------
(* Bounds of the model *)

MaxPower == 2       \* voting powers stay within -MaxDebt .. MaxPower
MaxDebt == 1
MaxValue == 1       \* transfer events carry a value in 0 .. MaxValue
MaxSetSize == 2     \* the maxValidatorSetSize the stake manager is built with
MaxEpochID == 2     \* PostEpoch is called for epochs 1 .. MaxEpochID
MaxEvents == 2      \* length of an event sequence applied to a stake map
MaxCap == 4         \* getActiveValidators is tried with caps 0 .. MaxCap
MaxReceipts == 2    \* receipts handed to getTransferEventsFromReceipts on its own
MaxIndex == 2       \* SAMs carry an event index in 0 .. MaxIndex
MaxQuorum == 2      \* the verifier reports quorum from 1 .. MaxQuorum messages on

----------------------------------------------------------------------------
(* Data *)

A1 == <<0, 2>>
A2 == <<1, 0>>
A3 == <<1, 1>>
Addresses == {A1, A2, A3}
ZeroAddress == <<0, 0>>

NilKey == "nil"
SomeKey == "key"

bigZero == 0

ValidatorMetadata(address, votingPower, blsKey, isActive) ==
    [Address |-> address, VotingPower |-> votingPower,
     BlsKey |-> blsKey, IsActive |-> isActive]

Range(s) == {s[i] : i \in 1..Len(s)}

\* every enumeration of the set S, without repetition
Enumerations(S) ==
    {s \in [1..Cardinality(S) -> S] : \A i, j \in 1..Cardinality(S) :
                                          i # j => s[i] # s[j]}

\* sequences over S of length at most n with pairwise distinct elements
RECURSIVE DistinctSeqs(_, _)
DistinctSeqs(S, n) ==
    IF n = 0 THEN {<<>>}
    ELSE LET shorter == DistinctSeqs(S, n - 1)
         IN  shorter \cup
             {Append(s, x) : <<s, x>> \in
                 {p \in shorter \X S : Len(p[1]) = n - 1 /\ p[2] \notin Range(p[1])}}

\* (*big.Int).Cmp
Cmp(x, y) == IF x > y THEN 1 ELSE IF x = y THEN 0 ELSE -1

\* bytes.Compare with the byte strings read from their last byte
RECURSIVE BytesCompareFromEnd(_, _)
BytesCompareFromEnd(a, b) ==
    IF a = <<>> /\ b = <<>> THEN 0
    ELSE IF a = <<>> THEN -1
    ELSE IF b = <<>> THEN 1
    ELSE IF a[Len(a)] < b[Len(b)] THEN -1
    ELSE IF a[Len(a)] > b[Len(b)] THEN 1
    ELSE BytesCompareFromEnd(SubSeq(a, 1, Len(a) - 1), SubSeq(b, 1, Len(b) - 1))

\* bytes.Compare: lexicographic order of two byte strings
RECURSIVE BytesCompare(_, _)
BytesCompare(a, b) ==
    IF a = <<>> /\ b = <<>> THEN 0
    ELSE IF a = <<>> THEN -1
    ELSE IF b = <<>> THEN 1
    ELSE IF Head(a) < Head(b) THEN -1
    ELSE IF Head(a) > Head(b) THEN 1
    ELSE BytesCompare(Tail(a), Tail(b))

----------------------------------------------------------------------------
(* validatorStakeMap *)

\* newValidatorStakeMap: a copy of each entry of the set under its address.
\* The set is the full validator set as the Store holds it: a set of
\* records, no two with the same address (StoreAddressesDistinct).
newValidatorStakeMap(validatorSet) ==
    [a \in {v.Address : v \in validatorSet} |->
        CHOOSE v \in validatorSet : v.Address = a]

EmptyStakeMap == <<>>

\* addStake that sets the voting power of an existing entry to the amount
addStakeOverwrite(sc, address, amount) ==
    [a \in DOMAIN sc \cup {address} |->
        IF a = address
        THEN ValidatorMetadata(address, amount,
                               IF a \in DOMAIN sc THEN sc[a].BlsKey ELSE NilKey,
                               Cmp(amount, bigZero) > 0)
        ELSE sc[a]]

\* addStake
addStake(sc, address, amount) ==
    IF address \in DOMAIN sc
    THEN [sc EXCEPT ![address] =
            ValidatorMetadata(address, @.VotingPower + amount, @.BlsKey,
                              Cmp(@.VotingPower + amount, bigZero) > 0)]
    ELSE [a \in DOMAIN sc \cup {address} |->
            IF a = address
            THEN ValidatorMetadata(address, amount, NilKey, TRUE)
            ELSE sc[a]]

\* removeStake dereferences the entry of the address: it panics when the
\* address has none
removeStakePanics(sc, address) == address \notin DOMAIN sc

removeStake(sc, address, amount) ==
    [sc EXCEPT ![address] =
        ValidatorMetadata(address, @.VotingPower - amount, @.BlsKey,
                          Cmp(@.VotingPower - amount, bigZero) > 0)]

\* a less function without the tie-break on the address
LessByPowerOnly(v1, v2) == Cmp(v1.VotingPower, v2.VotingPower) = 1

\* the less function handed to sort.Slice by getActiveValidators
Less(v1, v2) ==
    CASE Cmp(v1.VotingPower, v2.VotingPower) = 1 -> TRUE
      [] Cmp(v1.VotingPower, v2.VotingPower) = 0 ->
            BytesCompare(v1.Address, v2.Address) < 0
      [] OTHER -> FALSE

Swap(data, i, j) == [data EXCEPT ![i] = data[j], ![j] = data[i]]

\* inner loop of the insertion sort: sink data[j] while it is less than
\* its left neighbour
RECURSIVE SinkLeft(_, _)
SinkLeft(data, j) ==
    IF j > 1 /\ Less(data[j], data[j - 1])
    THEN SinkLeft(Swap(data, j, j - 1), j - 1)
    ELSE data

\* sort.Slice on a short slice: insertion sort with Less
RECURSIVE SortFrom(_, _)
SortFrom(data, i) ==
    IF i > Len(data) THEN data ELSE SortFrom(SinkLeft(data, i), i + 1)

\* no sorting at all
SortSliceOmitted(data) == data

SortSlice(data) == SortFrom(data, 2)

\* a selection that lets entries without voting power through
IsSelectedNotNegative(v) == Cmp(v.VotingPower, bigZero) >= 0

\* the selection of getActiveValidators: entries with voting power
IsSelected(v) == Cmp(v.VotingPower, bigZero) > 0

Truncate(validators, maxSize) ==
    IF Len(validators) <= maxSize THEN validators
    ELSE SubSeq(validators, 1, maxSize)

\* getActiveValidators; order is the order in which the map is ranged over
getActiveValidators(sc, order, maxSize) ==
    LET ranged == [i \in 1..Len(order) |-> sc[order[i]]]
        selected == SelectSeq(ranged, IsSelected)
    IN  Truncate(SortSlice(selected), maxSize)

----------------------------------------------------------------------------
(* Receipts, logs and transfer events *)

validatorSetContract == <<2, 0>>
otherContract == <<2, 1>>

ReceiptSuccess == "success"
ReceiptFailed == "failed"
NilStatus == "nil"

Values == 0..MaxValue

Log(address, kind, from, to, value) ==
    [Address |-> address, Kind |-> kind, From |-> from, To |-> to, Value |-> value]

TransferEvent(from, to, value) == [From |-> from, To |-> to, Value |-> value]

StakeEvents == {TransferEvent(ZeroAddress, a, v) : <<a, v>> \in Addresses \X Values}
UnstakeEvents == {TransferEvent(a, ZeroAddress, v) : <<a, v>> \in Addresses \X Values}
PlainTransfer == TransferEvent(A1, A2, 1)
Events == StakeEvents \cup UnstakeEvents \cup {PlainTransfer}

\* the logs of the validator set contract that carry a transfer event
TransferLogs ==
    {Log(validatorSetContract, "Transfer", e.From, e.To, e.Value) : e \in Events}

Logs ==
    TransferLogs
    \cup {Log(validatorSetContract, "Malformed", ZeroAddress, A1, 1),
          Log(validatorSetContract, "Other", ZeroAddress, A1, 1),
          Log(otherContract, "Transfer", ZeroAddress, A1, 1)}

Receipt(status, logs) == [Status |-> status, Logs |-> logs]

\* the receipts of a block handed to PostBlock: a receipt with success
\* status of no log, of any one log, or of a transfer log followed by a
\* transfer log or by the malformed one; a receipt without status or with
\* the failed status of one log (receipts at large: SpecReceipts)
Receipts ==
    {Receipt(ReceiptSuccess, logs) :
        logs \in {<<>>} \cup {<<l>> : l \in Logs}
                  \cup {<<l, m>> : <<l, m>> \in TransferLogs \X
                          (TransferLogs \cup
                           {Log(validatorSetContract, "Malformed", ZeroAddress, A1, 1)})}}
    \cup {Receipt(status, <<l>>) :
            <<status, l>> \in {NilStatus, ReceiptFailed} \X
               {Log(validatorSetContract, "Transfer", ZeroAddress, A1, 1),
                Log(validatorSetContract, "Malformed", ZeroAddress, A1, 1)}}

Blocks == {<<>>} \cup {<<r>> : r \in Receipts}

\* TransferEvent.ParseLog(convertLog(log)): whether the log matches the
\* Transfer event signature, the decoded event, and whether decoding failed
ParseLog(log) ==
    [doesMatch |-> log.Kind = "Transfer",
     err |-> log.Kind = "Malformed",
     transferEvent |-> TransferEvent(log.From, log.To, log.Value)]

IsStake(event) == event.From = ZeroAddress
IsUnstake(event) == event.To = ZeroAddress

NoEvents == [err |-> FALSE, events |-> <<>>]

\* inner loop of getTransferEventsFromReceipts: the logs of one receipt
RECURSIVE eventsFromLogs(_, _)
eventsFromLogs(logs, acc) ==
    IF logs = <<>> THEN acc
    ELSE IF Head(logs).Address # validatorSetContract
         THEN eventsFromLogs(Tail(logs), acc)
    ELSE IF ParseLog(Head(logs)).err
         THEN [err |-> TRUE, events |-> <<>>]
    ELSE IF ~ParseLog(Head(logs)).doesMatch
         THEN eventsFromLogs(Tail(logs), acc)
    ELSE eventsFromLogs(Tail(logs),
            [acc EXCEPT !.events = Append(@, ParseLog(Head(logs)).transferEvent)])

\* a loop over the receipts that does not look at their status
RECURSIVE eventsFromReceiptsAnyStatus(_, _)
eventsFromReceiptsAnyStatus(receipts, acc) ==
    IF receipts = <<>> \/ acc.err THEN acc
    ELSE eventsFromReceiptsAnyStatus(Tail(receipts),
                                     eventsFromLogs(Head(receipts).Logs, acc))

\* getTransferEventsFromReceipts
RECURSIVE eventsFromReceipts(_, _)
eventsFromReceipts(receipts, acc) ==
    IF receipts = <<>> \/ acc.err THEN acc
    ELSE IF Head(receipts).Status # ReceiptSuccess
         THEN eventsFromReceipts(Tail(receipts), acc)
    ELSE eventsFromReceipts(Tail(receipts), eventsFromLogs(Head(receipts).Logs, acc))

getTransferEventsFromReceipts(receipts) == eventsFromReceipts(receipts, NoEvents)

----------------------------------------------------------------------------
(* Registry lookup *)

\* getNewValidatorInfo that leaves the stake out of the record
getNewValidatorInfoNoStake(address, stake) ==
    ValidatorMetadata(address, bigZero, SomeKey, TRUE)

\* getNewValidatorInfo when the call to the supernet manager succeeds
getNewValidatorInfo(address, stake) ==
    ValidatorMetadata(address, stake, SomeKey, TRUE)

----------------------------------------------------------------------------
(* The Store *)

\* The Store keeps the full validator set it was last handed and gives no
\* ordering guarantee: its state is the set of the records, and every use
\* of a set read from the Store goes through newValidatorStakeMap.
getFullValidatorSet(s) == s

\* a Store that was never handed a full validator set has none to return:
\* reading it fails
HasFullValidatorSet == store # {}

\* insertFullValidatorSet replaces the stored set wholesale
insertFullValidatorSet(validatorSet) == validatorSet

\* ValidatorSet.Accounts() of a PostEpochRequest
Accounts(validatorSet) == Range(validatorSet)

----------------------------------------------------------------------------
(* PostBlock *)

\* a loop that passes over an unstake event for an address without an entry
RECURSIVE applyEventsSkippingUnknown(_, _)
applyEventsSkippingUnknown(sc, events) ==
    IF events = <<>> THEN [panic |-> FALSE, stakeMap |-> sc]
    ELSE LET event == Head(events)
         IN  IF IsStake(event)
             THEN applyEventsSkippingUnknown(addStake(sc, event.To, event.Value),
                                             Tail(events))
             ELSE IF IsUnstake(event) /\ ~removeStakePanics(sc, event.From)
             THEN applyEventsSkippingUnknown(
                      removeStake(sc, event.From, event.Value), Tail(events))
             ELSE applyEventsSkippingUnknown(sc, Tail(events))

\* the loop of PostBlock over the events; panic is set when removeStake
\* dereferences a missing entry
RECURSIVE applyEvents(_, _)
applyEvents(sc, events) ==
    IF events = <<>> THEN [panic |-> FALSE, stakeMap |-> sc]
    ELSE LET event == Head(events)
         IN  IF IsStake(event)
             THEN applyEvents(addStake(sc, event.To, event.Value), Tail(events))
             ELSE IF IsUnstake(event)
             THEN IF removeStakePanics(sc, event.From)
                  THEN [panic |-> TRUE, stakeMap |-> sc]
                  ELSE applyEvents(removeStake(sc, event.From, event.Value), Tail(events))
             ELSE applyEvents(sc, Tail(events))

Unresolved(sc) == {a \in DOMAIN sc : sc[a].BlsKey = NilKey}

\* a loop body that asks the registry only about entries with voting power
resolveEntryOnlyWithPower(data, answered) ==
    LET resolved ==
            IF data.BlsKey = NilKey /\ answered /\ Cmp(data.VotingPower, bigZero) > 0
            THEN getNewValidatorInfo(data.Address, data.VotingPower)
            ELSE data
    IN  [resolved EXCEPT !.IsActive = Cmp(resolved.VotingPower, bigZero) > 0]

\* a loop body that appends the entry without setting IsActive
resolveEntryWithoutRecompute(data, answered) ==
    IF data.BlsKey = NilKey /\ answered
    THEN getNewValidatorInfo(data.Address, data.VotingPower)
    ELSE data

\* the body of the second loop of PostBlock for one entry; answered is
\* whether the registry lookup for the address succeeds
resolveEntry(data, answered) ==
    LET resolved ==
            IF data.BlsKey = NilKey /\ answered
            THEN getNewValidatorInfo(data.Address, data.VotingPower)
            ELSE data
    IN  [resolved EXCEPT !.IsActive = Cmp(resolved.VotingPower, bigZero) > 0]

\* a loop that leaves out the entries whose lookup fails
newFullValidatorSetSkippingUnresolved(sc, registry) ==
    {resolveEntry(sc[a], TRUE) :
        a \in {b \in DOMAIN sc : sc[b].BlsKey # NilKey \/ b \in registry}}

\* newFullValidatorSet of PostBlock: one entry per entry of the stake map
newFullValidatorSet(sc, registry) ==
    {resolveEntry(sc[a], a \in registry) : a \in DOMAIN sc}

InBounds(sc) ==
    \A a \in DOMAIN sc : sc[a].VotingPower \in (0 - MaxDebt)..MaxPower

\* what a call returned: err is "nil", or the fault behind the error
\* ("parse", "store" for a failed read of the Store, "write" for a failed
\* write, "registry"), or "panic"; registry keeps the addresses for which
\* the registry answers during the call
Return(op, err) == [op |-> op, err |-> err, registry |-> {}]

NoDelta == [Added |-> <<>>, Updated |-> <<>>, Removed |-> {}]

\* the nil *ValidatorSetDelta that goes with an error
NilDelta == [nil |-> TRUE]

\* no call of the stake manager is under way and no result is outstanding
Idle == ret.op = "idle"

NoCall == <<oldValidatorSet, delta, deltaAgain>>

\* a call of the stake manager is not under way elsewhere: the receipts of
\* the last block, the two calls run side by side and the SAM pool
NoBlock == fullBlock = <<>> /\ extracted = NoEvents
Elsewhere == <<raceVars, poolVars, copyVars, relayerVars>>

\* what PostBlock returned, with the addresses for which the registry
\* answers during the call
Returned(err, registry) == [Return("PostBlock", err) EXCEPT !.registry = registry]

StoredUnresolved == {v.Address : v \in {w \in store : w.BlsKey = NilKey}}

PostBlock ==
    /\ Idle
    /\ \E block \in Blocks :
        LET transferEvents == getTransferEventsFromReceipts(block)
        IN  /\ fullBlock' = block
            /\ extracted' = transferEvents
            /\ UNCHANGED <<maxValidatorSetSize, mapVars, NoCall, Elsewhere>>
            /\ \/ /\ transferEvents.err
                  /\ ret' = Return("PostBlock", "parse")
                  /\ UNCHANGED store
               \/ /\ ~transferEvents.err
                  /\ transferEvents.events = <<>>
                  /\ \E registry \in SUBSET StoredUnresolved :
                        ret' = Returned("nil", registry)
                  /\ UNCHANGED store
               \/ /\ ~transferEvents.err
                  /\ transferEvents.events # <<>>
                  /\ \/ /\ ret' = Return("PostBlock", "store")   \* the Store read fails
                        /\ UNCHANGED store
                     \/ /\ HasFullValidatorSet
                        /\ LET full == getFullValidatorSet(store)
                               result == applyEvents(newValidatorStakeMap(full),
                                                     transferEvents.events)
                               sc == result.stakeMap
                           IN  \/ /\ result.panic
                                  /\ ret' = Return("PostBlock", "panic")
                                  /\ UNCHANGED store
                               \/ /\ ~result.panic
                                  /\ InBounds(sc)
                                  /\ \/ \E registry \in SUBSET Unresolved(sc) :
                                           /\ store' = insertFullValidatorSet(
                                                  newFullValidatorSet(sc, registry))
                                           /\ ret' = Returned("nil", registry)
                                     \/ /\ ret' = Return("PostBlock", "write")  \* the Store write fails
                                        /\ UNCHANGED store

----------------------------------------------------------------------------
(* PostEpoch *)

\* the validator sets a new epoch can start with
GenesisEntries ==
    {ValidatorMetadata(a, p, SomeKey, TRUE) : <<a, p>> \in Addresses \X (1..MaxPower)}

DistinctAddresses(validators) ==
    \A i, j \in 1..Len(validators) :
        i # j => validators[i].Address # validators[j].Address

AccountSets(entries, n) ==
    {s \in DistinctSeqs(entries, n) : DistinctAddresses(s)}

PostEpoch ==
    /\ Idle
    /\ \E NewEpochID \in 1..MaxEpochID :
       \E ValidatorSet \in AccountSets(GenesisEntries, 2) \ {<<>>} :
        /\ UNCHANGED <<maxValidatorSetSize, mapVars, NoCall, blockVars, Elsewhere>>
        /\ \/ /\ NewEpochID # 1
              /\ ret' = Return("PostEpoch", "nil")
              /\ UNCHANGED store
           \/ /\ NewEpochID = 1
              /\ \/ /\ store' = insertFullValidatorSet(Accounts(ValidatorSet))
                    /\ ret' = Return("PostEpoch", "nil")
                 \/ /\ ret' = Return("PostEpoch", "write")   \* the Store write fails
                    /\ UNCHANGED store

----------------------------------------------------------------------------
(* UpdateValidatorSet *)

\* oldActiveMap: the entry of oldValidatorSet stored last under each address
oldActiveMapOf(validators) ==
    [a \in {validators[i].Address : i \in 1..Len(validators)} |->
        validators[CHOOSE i \in 1..Len(validators) :
                      /\ validators[i].Address = a
                      /\ \A j \in 1..Len(validators) :
                            validators[j].Address = a => j <= i]]

\* a removal bitmap that counts the positions from 1
removedBitmapFromOne(validators, addressesSet) ==
    {i \in 1..Len(validators) : validators[i].Address \notin addressesSet}

\* the first loop of UpdateValidatorSet: bit i is set for position i of
\* oldValidatorSet (counted from 0)
removedBitmapOf(validators, addressesSet) ==
    {i - 1 : i \in {k \in 1..Len(validators) :
                        validators[k].Address \notin addressesSet}}

\* a second loop that reports every validator that stays as updated
RECURSIVE classifyWithoutCmp(_, _, _, _)
classifyWithoutCmp(newValidatorSet, oldActiveMap, registry, acc) ==
    IF newValidatorSet = <<>> THEN acc
    ELSE LET newValidator == Head(newValidatorSet)
             rest == Tail(newValidatorSet)
         IN  IF newValidator.Address \in DOMAIN oldActiveMap
             THEN classifyWithoutCmp(rest, oldActiveMap, registry,
                      [acc EXCEPT !.Updated = Append(@, newValidator)])
             ELSE IF newValidator.BlsKey = NilKey /\ newValidator.Address \notin registry
                  THEN [acc EXCEPT !.err = TRUE]
                  ELSE classifyWithoutCmp(rest, oldActiveMap, registry,
                           [acc EXCEPT !.Added = Append(@,
                               IF newValidator.BlsKey = NilKey
                               THEN ValidatorMetadata(newValidator.Address,
                                        newValidator.VotingPower, SomeKey, TRUE)
                               ELSE newValidator)])

\* a second loop that seats a validator as it is when its lookup fails
RECURSIVE classifyKeepingUnresolved(_, _, _, _)
classifyKeepingUnresolved(newValidatorSet, oldActiveMap, registry, acc) ==
    IF newValidatorSet = <<>> THEN acc
    ELSE LET newValidator == Head(newValidatorSet)
             rest == Tail(newValidatorSet)
         IN  IF newValidator.Address \in DOMAIN oldActiveMap
             THEN IF Cmp(oldActiveMap[newValidator.Address].VotingPower,
                         newValidator.VotingPower) # 0
                  THEN classifyKeepingUnresolved(rest, oldActiveMap, registry,
                           [acc EXCEPT !.Updated = Append(@, newValidator)])
                  ELSE classifyKeepingUnresolved(rest, oldActiveMap, registry, acc)
             ELSE classifyKeepingUnresolved(rest, oldActiveMap, registry,
                      [acc EXCEPT !.Added = Append(@,
                          IF newValidator.BlsKey = NilKey
                             /\ newValidator.Address \in registry
                          THEN getNewValidatorInfo(newValidator.Address,
                                                   newValidator.VotingPower)
                          ELSE newValidator)])

\* the second loop of UpdateValidatorSet, from the validators still to be
\* classified; it stops with err at the first failed registry lookup
RECURSIVE classify(_, _, _, _)
classify(newValidatorSet, oldActiveMap, registry, acc) ==
    IF newValidatorSet = <<>> THEN acc
    ELSE LET newValidator == Head(newValidatorSet)
             rest == Tail(newValidatorSet)
         IN  IF newValidator.Address \in DOMAIN oldActiveMap
             THEN IF Cmp(oldActiveMap[newValidator.Address].VotingPower,
                         newValidator.VotingPower) # 0
                  THEN classify(rest, oldActiveMap, registry,
                           [acc EXCEPT !.Updated = Append(@, newValidator)])
                  ELSE classify(rest, oldActiveMap, registry, acc)
             ELSE IF newValidator.BlsKey = NilKey
                  THEN IF newValidator.Address \in registry
                       THEN classify(rest, oldActiveMap, registry,
                                [acc EXCEPT !.Added = Append(@,
                                    getNewValidatorInfo(newValidator.Address,
                                                        newValidator.VotingPower))])
                       ELSE [acc EXCEPT !.err = TRUE]
                  ELSE classify(rest, oldActiveMap, registry,
                           [acc EXCEPT !.Added = Append(@, newValidator)])

\* UpdateValidatorSet on the full set read from the Store; order is the
\* order in which the stake map is ranged over, registry the addresses
\* whose lookup succeeds.  The debug branch applies the delta to a copy of
\* oldValidatorSet for logging only.
updateValidatorSet(full, validators, order, registry, maxSize) ==
    LET sc == newValidatorStakeMap(full)
        newValidatorSet == getActiveValidators(sc, order, maxSize)
        addressesSet == {newValidatorSet[i].Address : i \in 1..Len(newValidatorSet)}
        classified == classify(newValidatorSet, oldActiveMapOf(validators), registry,
                               [err |-> FALSE, Added |-> <<>>, Updated |-> <<>>])
    IN  IF classified.err
        THEN [err |-> TRUE, delta |-> NilDelta]
        ELSE [err |-> FALSE,
              delta |-> [Added |-> classified.Added,
                         Updated |-> classified.Updated,
                         Removed |-> removedBitmapOf(validators, addressesSet)]]

\* the committees UpdateValidatorSet is handed: at most maxValidatorSetSize
\* seated validators, in any order, holding the lowest or the highest power
CommitteeEntries ==
    {ValidatorMetadata(a, p, SomeKey, TRUE) : <<a, p>> \in Addresses \X {1, MaxPower}}

Committees == AccountSets(CommitteeEntries, maxValidatorSetSize)

StoredAddresses == {v.Address : v \in store}

\* the addresses UpdateValidatorSet may ask the registry about: stored
\* without a BLS key, with voting power, and not on the given committee
Lookups(validators) ==
    {v.Address : v \in {w \in store :
        /\ w.BlsKey = NilKey
        /\ w.VotingPower > 0
        /\ w.Address \notin {validators[i].Address : i \in 1..Len(validators)}}}

UpdateValidatorSet ==
    /\ Idle
    /\ \E validators \in Committees :
        /\ UNCHANGED <<store, maxValidatorSetSize, mapVars, blockVars, Elsewhere>>
        /\ oldValidatorSet' = validators
        /\ deltaAgain' = NoDelta
        /\ \/ /\ ret' = Return("UpdateValidatorSet", "store")   \* the Store read fails
              /\ delta' = NilDelta
           \/ \E order \in Enumerations(StoredAddresses) :
              \E registry \in SUBSET Lookups(validators) :
                 LET result == updateValidatorSet(getFullValidatorSet(store), validators,
                                                  order, registry, maxValidatorSetSize)
                 IN  /\ HasFullValidatorSet
                     /\ delta' = result.delta
                     /\ ret' = [op |-> "UpdateValidatorSet",
                                err |-> IF result.err THEN "registry" ELSE "nil",
                                registry |-> registry]

\* a second computation of the delta, from the same Store contents, the same
\* committee and the same registry answers
UpdateValidatorSetAgain ==
    /\ ret.op = "UpdateValidatorSet"
    /\ ret.err \in {"nil", "registry"}
    /\ UNCHANGED <<store, maxValidatorSetSize, mapVars, oldValidatorSet, delta,
                   blockVars, Elsewhere>>
    /\ \E order \in Enumerations(StoredAddresses) :
          LET result == updateValidatorSet(getFullValidatorSet(store), oldValidatorSet,
                                           order, ret.registry, maxValidatorSetSize)
          IN  /\ deltaAgain' = result.delta
              /\ ret' = [op |-> "UpdateValidatorSetAgain",
                         err |-> IF result.err THEN "registry" ELSE "nil",
                         registry |-> ret.registry, first |-> ret.err]

\* the caller has taken the result of the last call; the delta is handed
\* over once and not kept
Continue ==
    /\ ~Idle
    /\ ret.op \in {"PostEpoch", "PostBlock", "UpdateValidatorSet",
                   "UpdateValidatorSetAgain"}
    /\ ret' = Return("idle", "nil")
    /\ oldValidatorSet' = <<>>
    /\ delta' = NoDelta
    /\ deltaAgain' = NoDelta
    /\ fullBlock' = <<>>
    /\ extracted' = NoEvents
    /\ UNCHANGED <<store, maxValidatorSetSize, mapVars, Elsewhere>>

----------------------------------------------------------------------------
(* The stake manager *)

\* no PostBlock and UpdateValidatorSet run side by side
NoRace == pc = [PostBlock |-> "idle", UpdateValidatorSet |-> "idle"] /\ loaded = {}

\* no SAM pool is in use
NoPool == messages = <<>> /\ lastProcessedIndex = 0 /\ verifier = <<>>

\* no object is in memory
NoCopies == heap = <<>> /\ committee = <<>> /\ kept = {} /\ locals = <<>>

\* no relayer service runs
NoRelayer == aaPool = <<>> /\ txs = <<>> /\ aaState = <<>> /\ jobs = <<>>

Init ==
    /\ store = {}
    /\ maxValidatorSetSize = MaxSetSize
    /\ ret = Return("idle", "nil")
    /\ oldValidatorSet = <<>>
    /\ delta = NoDelta
    /\ deltaAgain = NoDelta
    /\ stakeMap = EmptyStakeMap
    /\ iterOrder = <<>>
    /\ pending = <<>>
    /\ applied = <<>>
    /\ fullValidatorSet = {}
    /\ activeValidators = <<>>
    /\ NoBlock
    /\ NoRace
    /\ NoPool
    /\ NoCopies
    /\ NoRelayer

Next ==
    \/ PostEpoch
    \/ PostBlock
    \/ UpdateValidatorSet
    \/ UpdateValidatorSetAgain
    \/ Continue

Spec == Init /\ [][Next]_vars

\* the calls that write the Store, without the delta computations between
\* them (UpdateValidatorSet leaves the Store alone)
NextIngest ==
    \/ PostEpoch
    \/ PostBlock
    \/ Continue

SpecIngest == Init /\ [][NextIngest]_vars

----------------------------------------------------------------------------
(* getActiveValidators on every stake map, cap and iteration order *)

Powers == (0 - MaxDebt)..(MaxPower + 1)

StakeMaps ==
    UNION {[D -> Powers] : D \in SUBSET Addresses}

MetadataOf(powerOf) ==
    [a \in DOMAIN powerOf |->
        ValidatorMetadata(a, powerOf[a], SomeKey, powerOf[a] > 0)]

InitActive ==
    /\ store = {}
    /\ ret = Return("idle", "nil")
    /\ oldValidatorSet = <<>>
    /\ delta = NoDelta
    /\ deltaAgain = NoDelta
    /\ pending = <<>>
    /\ applied = <<>>
    /\ fullValidatorSet = {}
    /\ activeValidators = <<>>
    /\ maxValidatorSetSize \in 0..MaxCap
    /\ NoBlock
    /\ NoRace
    /\ NoPool
    /\ NoCopies
    /\ NoRelayer
    /\ \E powerOf \in StakeMaps :
          /\ stakeMap = MetadataOf(powerOf)
          /\ iterOrder \in Enumerations(DOMAIN powerOf)

SelectActive ==
    /\ Idle
    /\ activeValidators' = getActiveValidators(stakeMap, iterOrder, maxValidatorSetSize)
    /\ ret' = Return("getActiveValidators", "nil")
    /\ UNCHANGED <<store, maxValidatorSetSize, NoCall, stakeMap, iterOrder,
                   pending, applied, fullValidatorSet, blockVars, Elsewhere>>

NextActive == SelectActive

SpecActive == InitActive /\ [][NextActive]_vars

----------------------------------------------------------------------------
(* The event loop of PostBlock on a stake map, one event at a time *)

BaseEntries ==
    {ValidatorMetadata(a, p, SomeKey, p > 0) : <<a, p>> \in {A1, A2} \X (0..MaxPower)}

BaseSets ==
    {S \in SUBSET BaseEntries : \A v, w \in S : v.Address = w.Address => v = w}

RECURSIVE SeqsUpTo(_, _)
SeqsUpTo(S, n) ==
    IF n = 0 THEN {<<>>}
    ELSE LET shorter == SeqsUpTo(S, n - 1)
         IN  shorter \cup {Append(s, x) : <<s, x>> \in {p \in shorter \X S : Len(p[1]) = n - 1}}

InitStake ==
    /\ store = {}
    /\ maxValidatorSetSize = MaxSetSize
    /\ ret = Return("idle", "nil")
    /\ oldValidatorSet = <<>>
    /\ delta = NoDelta
    /\ deltaAgain = NoDelta
    /\ iterOrder = <<>>
    /\ activeValidators = <<>>
    /\ applied = <<>>
    /\ fullValidatorSet \in BaseSets
    /\ stakeMap = newValidatorStakeMap(fullValidatorSet)
    /\ pending \in SeqsUpTo(Events, MaxEvents)
    /\ NoBlock
    /\ NoRace
    /\ NoPool
    /\ NoCopies
    /\ NoRelayer

StepFrame ==
    UNCHANGED <<store, maxValidatorSetSize, NoCall, iterOrder, fullValidatorSet,
                activeValidators, blockVars, Elsewhere>>

\* event.IsStake(): stakeMap.addStake(event.To, event.Value)
StakeStep ==
    /\ Idle
    /\ pending # <<>>
    /\ IsStake(Head(pending))
    /\ stakeMap' = addStake(stakeMap, Head(pending).To, Head(pending).Value)
    /\ applied' = Append(applied, Head(pending))
    /\ pending' = Tail(pending)
    /\ ret' = ret
    /\ StepFrame

\* event.IsUnstake(): stakeMap.removeStake(event.From, event.Value)
UnstakeStep ==
    /\ Idle
    /\ pending # <<>>
    /\ ~IsStake(Head(pending))
    /\ IsUnstake(Head(pending))
    /\ ~removeStakePanics(stakeMap, Head(pending).From)
    /\ stakeMap' = removeStake(stakeMap, Head(pending).From, Head(pending).Value)
    /\ applied' = Append(applied, Head(pending))
    /\ pending' = Tail(pending)
    /\ ret' = ret
    /\ StepFrame

\* removeStake on an address without an entry: nil dereference
UnstakePanic ==
    /\ Idle
    /\ pending # <<>>
    /\ ~IsStake(Head(pending))
    /\ IsUnstake(Head(pending))
    /\ removeStakePanics(stakeMap, Head(pending).From)
    /\ ret' = Return("removeStake", "panic")
    /\ UNCHANGED <<stakeMap, applied, pending>>
    /\ StepFrame

\* neither a stake nor an unstake: logged and skipped
SkipStep ==
    /\ Idle
    /\ pending # <<>>
    /\ ~IsStake(Head(pending))
    /\ ~IsUnstake(Head(pending))
    /\ applied' = Append(applied, Head(pending))
    /\ pending' = Tail(pending)
    /\ UNCHANGED <<stakeMap, ret>>
    /\ StepFrame

NextStake ==
    \/ StakeStep
    \/ UnstakeStep
    \/ UnstakePanic
    \/ SkipStep

SpecStake == InitStake /\ [][NextStake]_vars

----------------------------------------------------------------------------
(* getTransferEventsFromReceipts on the receipts of a block, on its own *)

StakeLog == Log(validatorSetContract, "Transfer", ZeroAddress, A1, 1)
UnstakeLog == Log(validatorSetContract, "Transfer", A2, ZeroAddress, 1)
MalformedLog == Log(validatorSetContract, "Malformed", ZeroAddress, A1, 1)
OtherLog == Log(validatorSetContract, "Other", ZeroAddress, A1, 1)
ForeignLog == Log(otherContract, "Transfer", ZeroAddress, A3, 1)
ForeignMalformedLog == Log(otherContract, "Malformed", ZeroAddress, A3, 1)

SampleLogs ==
    {StakeLog, UnstakeLog, MalformedLog, OtherLog, ForeignLog, ForeignMalformedLog}

\* receipts with success status of up to two logs, and receipts without
\* status or with the failed status of one log
SampleReceipts ==
    {Receipt(ReceiptSuccess, logs) :
        logs \in {<<>>} \cup {<<l>> : l \in SampleLogs}
                  \cup {<<l, m>> : <<l, m>> \in SampleLogs \X SampleLogs}}
    \cup {Receipt(status, <<l>>) :
            <<status, l>> \in {NilStatus, ReceiptFailed} \X {StakeLog, MalformedLog}}

InitReceipts ==
    /\ store = {}
    /\ maxValidatorSetSize = MaxSetSize
    /\ ret = Return("idle", "nil")
    /\ oldValidatorSet = <<>>
    /\ delta = NoDelta
    /\ deltaAgain = NoDelta
    /\ stakeMap = EmptyStakeMap
    /\ iterOrder = <<>>
    /\ pending = <<>>
    /\ applied = <<>>
    /\ fullValidatorSet = {}
    /\ activeValidators = <<>>
    /\ fullBlock \in SeqsUpTo(SampleReceipts, MaxReceipts)
    /\ extracted = NoEvents
    /\ NoRace
    /\ NoPool
    /\ NoCopies
    /\ NoRelayer

ExtractEvents ==
    /\ Idle
    /\ extracted' = getTransferEventsFromReceipts(fullBlock)
    /\ ret' = Return("getTransferEventsFromReceipts",
                     IF extracted'.err THEN "parse" ELSE "nil")
    /\ UNCHANGED <<store, maxValidatorSetSize, NoCall, mapVars, fullBlock, Elsewhere>>

NextReceipts == ExtractEvents

SpecReceipts == InitReceipts /\ [][NextReceipts]_vars

----------------------------------------------------------------------------
(* A PostBlock and an UpdateValidatorSet on the same Store, side by side. *)
(* Each call is taken statement by statement; a read and a write of the  *)
(* Store are one step each.                                              *)

\* the events of the block: stakes and unstakes of the highest value, and
\* a transfer that is neither
RaceEvents == {e \in Events : e.Value = MaxValue}

RaceStores == BaseSets \ {{}}

InitRace ==
    /\ store \in RaceStores
    /\ maxValidatorSetSize = MaxSetSize
    /\ ret = Return("idle", "nil")
    /\ oldValidatorSet = <<>>
    /\ delta = NoDelta
    /\ deltaAgain = NoDelta
    /\ stakeMap = EmptyStakeMap
    /\ iterOrder = <<>>
    /\ pending = <<>>
    /\ applied = <<>>
    /\ fullValidatorSet = {}
    /\ activeValidators = <<>>
    /\ fullBlock = <<>>
    /\ extracted \in {[err |-> FALSE, events |-> events] :
                         events \in SeqsUpTo(RaceEvents, MaxEvents) \ {<<>>}}
    /\ pc = [PostBlock |-> "start", UpdateValidatorSet |-> "start"]
    /\ loaded = {}
    /\ NoPool
    /\ NoCopies
    /\ NoRelayer

RaceFrame ==
    UNCHANGED <<maxValidatorSetSize, ret, NoCall, iterOrder, blockVars, poolVars,
                copyVars, relayerVars>>

\* fullValidatorSet, err := s.state.StakeStore.getFullValidatorSet()
\* stakeMap := newValidatorStakeMap(fullValidatorSet)
PostBlockLoad ==
    /\ pc.PostBlock = "start"
    /\ \/ /\ pc' = [pc EXCEPT !.PostBlock = "loop"]
          /\ fullValidatorSet' = getFullValidatorSet(store)
          /\ stakeMap' = newValidatorStakeMap(getFullValidatorSet(store))
          /\ pending' = extracted.events
       \/ /\ pc' = [pc EXCEPT !.PostBlock = "failed"]    \* the read fails
          /\ UNCHANGED <<fullValidatorSet, stakeMap, pending>>
    /\ UNCHANGED <<store, applied, loaded, activeValidators>>
    /\ RaceFrame

\* a loop over the events that ends one event early
loopDoneEarly(events) == Len(events) <= 1

\* for _, event := range events: the loop is over
loopDone(events) == events = <<>>

\* one turn of the loop over the events
PostBlockEvent ==
    /\ pc.PostBlock = "loop"
    /\ ~loopDone(pending)
    /\ LET result == applyEvents(stakeMap, <<Head(pending)>>)
       IN  \/ /\ result.panic
              /\ pc' = [pc EXCEPT !.PostBlock = "panic"]
              /\ UNCHANGED <<stakeMap, pending, applied>>
           \/ /\ ~result.panic
              /\ stakeMap' = result.stakeMap
              /\ pending' = Tail(pending)
              /\ applied' = Append(applied, Head(pending))
              /\ UNCHANGED pc
    /\ UNCHANGED <<store, fullValidatorSet, loaded, activeValidators>>
    /\ RaceFrame

\* the loop over the stake map and
\* return s.state.StakeStore.insertFullValidatorSet(newFullValidatorSet)
PostBlockInsert ==
    /\ pc.PostBlock = "loop"
    /\ loopDone(pending)
    /\ \/ /\ \E registry \in SUBSET Unresolved(stakeMap) :
                store' = insertFullValidatorSet(newFullValidatorSet(stakeMap, registry))
          /\ pc' = [pc EXCEPT !.PostBlock = "done"]
       \/ /\ pc' = [pc EXCEPT !.PostBlock = "failed"]    \* the write fails
          /\ UNCHANGED store
    /\ UNCHANGED <<stakeMap, pending, applied, fullValidatorSet, loaded,
                   activeValidators>>
    /\ RaceFrame

\* fullValidatorSet, err := s.state.StakeStore.getFullValidatorSet()
UpdateValidatorSetLoad ==
    /\ pc.UpdateValidatorSet = "start"
    /\ \/ /\ pc' = [pc EXCEPT !.UpdateValidatorSet = "loaded"]
          /\ loaded' = getFullValidatorSet(store)
       \/ /\ pc' = [pc EXCEPT !.UpdateValidatorSet = "failed"]   \* the read fails
          /\ UNCHANGED loaded
    /\ UNCHANGED <<store, stakeMap, pending, applied, fullValidatorSet,
                   activeValidators>>
    /\ RaceFrame

\* newValidatorSet := stakeMap.getActiveValidators(s.maxValidatorSetSize)
UpdateValidatorSetSelect ==
    /\ pc.UpdateValidatorSet = "loaded"
    /\ \E order \in Enumerations({v.Address : v \in loaded}) :
          activeValidators' = getActiveValidators(newValidatorStakeMap(loaded), order,
                                                  maxValidatorSetSize)
    /\ pc' = [pc EXCEPT !.UpdateValidatorSet = "selected"]
    /\ UNCHANGED <<store, stakeMap, pending, applied, fullValidatorSet, loaded>>
    /\ RaceFrame

NextRace ==
    \/ PostBlockLoad
    \/ PostBlockEvent
    \/ PostBlockInsert
    \/ UpdateValidatorSetLoad
    \/ UpdateValidatorSetSelect

SpecRace == InitRace /\ [][NextRace]_vars

----------------------------------------------------------------------------
(* The SAM pool, as its tests fix it *)

Hashes == {"h1", "h2"}
BadHash == "a really bad hash"
Signatures == {"s1", "s2"}
BadSignature == "a really bad signature"

\* rootchain.SAM
SAM(index, hash, signature) ==
    [Index |-> index, Hash |-> hash, Signature |-> signature]

SAMs ==
    {SAM(i, h, sig) : <<i, h, sig>> \in (0..MaxIndex) \X (Hashes \cup {BadHash})
                                           \X (Signatures \cup {BadSignature})}

\* mockVerifier: VerifyHash, VerifySignature and Quorum
VerifyHash(msg) == msg.Hash # BadHash
VerifySignature(msg) == msg.Signature # BadSignature
Quorum(n) == n >= verifier.quorum

NilSAM == <<>>

\* a sam set that takes a message whatever it holds
addAlways(set, msg) == Append(set, msg)

\* samSet.add: a message whose signature the set holds is not added again
add(set, msg) ==
    IF \E i \in 1..Len(set) : set[i].Signature = msg.Signature
    THEN set
    ELSE Append(set, msg)

\* the pool holds the message: same index, hash and signature
InPool(msg) ==
    /\ msg.Index \in DOMAIN messages
    /\ msg.Hash \in DOMAIN messages[msg.Index]
    /\ \E i \in 1..Len(messages[msg.Index][msg.Hash]) :
          messages[msg.Index][msg.Hash][i].Signature = msg.Signature

\* the messages of the pool once msg is put into the bucket of its index,
\* in the sam set of its hash
addMessage(buckets, msg) ==
    LET bucket == IF msg.Index \in DOMAIN buckets THEN buckets[msg.Index] ELSE <<>>
        set == IF msg.Hash \in DOMAIN bucket THEN bucket[msg.Hash] ELSE <<>>
        newBucket == [h \in DOMAIN bucket \cup {msg.Hash} |->
                         IF h = msg.Hash THEN add(set, msg) ELSE bucket[h]]
    IN  [i \in DOMAIN buckets \cup {msg.Index} |->
            IF i = msg.Index THEN newBucket ELSE buckets[i]]

\* what AddMessage returns for the message
addMessageError(msg) ==
    IF ~VerifyHash(msg) THEN "ErrInvalidHash"
    ELSE IF ~VerifySignature(msg) THEN "ErrInvalidSignature"
    ELSE IF msg.Index <= lastProcessedIndex THEN "ErrStaleMessage"
    ELSE "nil"

PoolFrame == UNCHANGED <<store, maxValidatorSetSize, NoCall, mapVars, blockVars,
                         raceVars, verifier, copyVars, relayerVars>>

\* SAMPool.AddMessage; known records whether the pool held the message
AddMessage ==
    /\ Idle
    /\ \E msg \in SAMs :
          /\ ret' = [op |-> "AddMessage", err |-> addMessageError(msg),
                     msg |-> msg, known |-> InPool(msg)]
          /\ messages' = IF addMessageError(msg) = "nil"
                         THEN addMessage(messages, msg)
                         ELSE messages
    /\ UNCHANGED lastProcessedIndex
    /\ PoolFrame

\* SAMPool.Prune: the buckets up to the index are dropped
Prune ==
    /\ Idle
    /\ \E index \in 0..MaxIndex :
          /\ messages' = [i \in {j \in DOMAIN messages : j > index} |-> messages[i]]
          /\ ret' = [op |-> "Prune", err |-> "nil", index |-> index]
    /\ UNCHANGED lastProcessedIndex
    /\ PoolFrame

\* a bucket whose every sam set counts as having quorum
quorumMessagesAny(bucket) == DOMAIN bucket

\* the hashes of the bucket whose sam set has quorum
quorumMessages(bucket) == {h \in DOMAIN bucket : Quorum(Len(bucket[h]))}

\* SAMPool.Peek: the verified SAM for the index after lastProcessedIndex,
\* or nil
Peek ==
    /\ Idle
    /\ LET expectedIndex == lastProcessedIndex + 1
       IN  \/ /\ \/ expectedIndex \notin DOMAIN messages
                  \/ /\ expectedIndex \in DOMAIN messages
                     /\ quorumMessages(messages[expectedIndex]) = {}
              /\ ret' = [op |-> "Peek", err |-> "nil", sam |-> NilSAM]
           \/ /\ expectedIndex \in DOMAIN messages
              /\ \E h \in quorumMessages(messages[expectedIndex]) :
                    ret' = [op |-> "Peek", err |-> "nil",
                            sam |-> messages[expectedIndex][h]]
    /\ UNCHANGED <<messages, lastProcessedIndex>>
    /\ PoolFrame

\* SAMPool.Pop: as Peek, and a SAM that is returned is taken from the pool
Pop ==
    /\ Idle
    /\ LET expectedIndex == lastProcessedIndex + 1
       IN  \/ /\ \/ expectedIndex \notin DOMAIN messages
                  \/ /\ expectedIndex \in DOMAIN messages
                     /\ quorumMessages(messages[expectedIndex]) = {}
              /\ ret' = [op |-> "Pop", err |-> "nil", sam |-> NilSAM]
              /\ UNCHANGED <<messages, lastProcessedIndex>>
           \/ /\ expectedIndex \in DOMAIN messages
              /\ \E h \in quorumMessages(messages[expectedIndex]) :
                    ret' = [op |-> "Pop", err |-> "nil",
                            sam |-> messages[expectedIndex][h]]
              /\ messages' = [i \in DOMAIN messages \ {expectedIndex} |-> messages[i]]
              /\ lastProcessedIndex' = expectedIndex
    /\ PoolFrame

\* the caller has taken the result of the last call of the pool
PoolContinue ==
    /\ ~Idle
    /\ ret.op \in {"AddMessage", "Prune", "Peek", "Pop"}
    /\ ret' = Return("idle", "nil")
    /\ UNCHANGED <<messages, lastProcessedIndex>>
    /\ PoolFrame

\* sampool.New(verifier)
InitPool ==
    /\ store = {}
    /\ maxValidatorSetSize = MaxSetSize
    /\ ret = Return("idle", "nil")
    /\ oldValidatorSet = <<>>
    /\ delta = NoDelta
    /\ deltaAgain = NoDelta
    /\ stakeMap = EmptyStakeMap
    /\ iterOrder = <<>>
    /\ pending = <<>>
    /\ applied = <<>>
    /\ fullValidatorSet = {}
    /\ activeValidators = <<>>
    /\ NoBlock
    /\ NoRace
    /\ messages = <<>>
    /\ lastProcessedIndex = 0
    /\ verifier \in {[quorum |-> q] : q \in 1..MaxQuorum}
    /\ NoCopies
    /\ NoRelayer

NextPool ==
    \/ AddMessage
    \/ Prune
    \/ Peek
    \/ Pop
    \/ PoolContinue

SpecPool == InitPool /\ [][NextPool]_vars

----------------------------------------------------------------------------
(* Applying a delta *)

\* the entries of validators at the positions (from 0) outside removed
RECURSIVE removePositions(_, _)
removePositions(validators, removed) ==
    IF validators = <<>> THEN <<>>
    ELSE LET front == removePositions(SubSeq(validators, 1, Len(validators) - 1), removed)
         IN  IF (Len(validators) - 1) \in removed
             THEN front
             ELSE Append(front, validators[Len(validators)])

\* each entry replaced by the entry of updated with its address, if any
overwriteUpdated(validators, updated) ==
    [i \in 1..Len(validators) |->
        IF \E j \in 1..Len(updated) : updated[j].Address = validators[i].Address
        THEN updated[CHOOSE j \in 1..Len(updated) :
                        updated[j].Address = validators[i].Address]
        ELSE validators[i]]

\* AccountSet.ApplyDelta: remove the marked positions, append Added,
\* overwrite by address the entries listed in Updated
ApplyDelta(validators, validatorsDelta) ==
    overwriteUpdated(removePositions(validators, validatorsDelta.Removed)
                        \o validatorsDelta.Added,
                     validatorsDelta.Updated)

----------------------------------------------------------------------------
(* UpdateValidatorSet on objects in memory.  A *ValidatorMetadata is a    *)
(* reference r into heap, heap[r] the object behind it; an AccountSet is  *)
(* a sequence of references.  The caller holds its committee by the       *)
(* references in committee; the Store hands out its full set by the       *)
(* references in kept, the case in which a write through them would reach *)
(* what the Store holds.                                                  *)

\* the objects behind a sequence of references
Deref(h, refs) == [i \in 1..Len(refs) |-> h[refs[i]]]

\* the full validator sets UpdateValidatorSet finds in the Store
CopyEntries ==
    {ValidatorMetadata(a, p, k, TRUE) :
        <<a, p, k>> \in Addresses \X {1, MaxPower} \X {NilKey, SomeKey}}

CopyStores ==
    {S \in SUBSET CopyEntries : \A v, w \in S : v.Address = w.Address => v = w}

\* AccountSet.Copy: a new object for every entry, in the order of the set
CopyAccountSet(h, refs) ==
    [heap |-> h \o Deref(h, refs),
     refs |-> [i \in 1..Len(refs) |-> Len(h) + i]]

\* a stake map that holds the entries of the set themselves
newValidatorStakeMapShared(h, validatorSet) ==
    [heap |-> h,
     stakeMap |-> [a \in {h[validatorSet[i]].Address : i \in 1..Len(validatorSet)} |->
                      validatorSet[CHOOSE i \in 1..Len(validatorSet) :
                                      h[validatorSet[i]].Address = a]]]

\* newValidatorStakeMap: stakeMap[v.Address] = v.Copy() for every v of the
\* set, the copy a new object
newValidatorStakeMapRefs(h, validatorSet) ==
    [heap |-> h \o Deref(h, validatorSet),
     stakeMap |-> [a \in {h[validatorSet[i]].Address : i \in 1..Len(validatorSet)} |->
                      Len(h) + CHOOSE i \in 1..Len(validatorSet) :
                                  h[validatorSet[i]].Address = a]]

\* the second loop of UpdateValidatorSet on references: Updated and Added
\* take the reference of the stake map's entry, or of the new object that
\* getNewValidatorInfo returns
RECURSIVE classifyRefs(_, _, _, _, _)
classifyRefs(h, newValidatorSet, oldActiveMap, registry, acc) ==
    IF newValidatorSet = <<>> THEN [acc EXCEPT !.heap = h]
    ELSE LET newValidator == Head(newValidatorSet)
             rest == Tail(newValidatorSet)
         IN  IF h[newValidator].Address \in DOMAIN oldActiveMap
             THEN IF Cmp(h[oldActiveMap[h[newValidator].Address]].VotingPower,
                         h[newValidator].VotingPower) # 0
                  THEN classifyRefs(h, rest, oldActiveMap, registry,
                           [acc EXCEPT !.Updated = Append(@, newValidator)])
                  ELSE classifyRefs(h, rest, oldActiveMap, registry, acc)
             ELSE IF h[newValidator].BlsKey = NilKey
                  THEN IF h[newValidator].Address \in registry
                       THEN classifyRefs(
                                Append(h, getNewValidatorInfo(h[newValidator].Address,
                                                              h[newValidator].VotingPower)),
                                rest, oldActiveMap, registry,
                                [acc EXCEPT !.Added = Append(@, Len(h) + 1)])
                       ELSE [acc EXCEPT !.err = TRUE, !.heap = h]
                  ELSE classifyRefs(h, rest, oldActiveMap, registry,
                           [acc EXCEPT !.Added = Append(@, newValidator)])

\* AccountSet.ApplyDelta as far as it may write to its receiver: an entry
\* listed in Updated is overwritten in place
ApplyDeltaInPlace(h, validators, validatorsDelta) ==
    [r \in 1..Len(h) |->
        IF /\ r \in Range(validators)
           /\ \E u \in Range(validatorsDelta.Updated) : h[u].Address = h[r].Address
        THEN h[CHOOSE u \in Range(validatorsDelta.Updated) : h[u].Address = h[r].Address]
        ELSE h[r]]

\* the local variables before the first statement
NoLocals == [fullValidatorSet |-> <<>>, stakeMap |-> <<>>, newValidatorSet |-> <<>>,
             delta |-> NoDelta]

\* the Store's set in the order the Store hands it out
KeptInOrder == CHOOSE s \in Enumerations(kept) : TRUE

InitCopy ==
    /\ store \in CopyStores
    /\ maxValidatorSetSize = MaxSetSize
    /\ ret = Return("idle", "nil")
    /\ oldValidatorSet \in Committees
    /\ delta = NoDelta
    /\ deltaAgain = NoDelta
    /\ stakeMap = EmptyStakeMap
    /\ iterOrder = <<>>
    /\ pending = <<>>
    /\ applied = <<>>
    /\ fullValidatorSet = {}
    /\ activeValidators = <<>>
    /\ NoBlock
    /\ pc = [PostBlock |-> "idle", UpdateValidatorSet |-> "start"]
    /\ loaded = {}
    /\ NoPool
    /\ committee = [i \in 1..Len(oldValidatorSet) |-> i]
    /\ kept = {Len(oldValidatorSet) + i : i \in 1..Cardinality(store)}
    /\ heap = oldValidatorSet \o (CHOOSE s \in Enumerations(store) : TRUE)
    /\ locals = NoLocals
    /\ NoRelayer

CopyFrame ==
    UNCHANGED <<store, maxValidatorSetSize, oldValidatorSet, deltaAgain, mapVars,
                blockVars, loaded, poolVars, committee, kept, relayerVars>>

\* fullValidatorSet, err := s.state.StakeStore.getFullValidatorSet()
CopyLoad ==
    /\ pc.UpdateValidatorSet = "start"
    /\ \/ /\ HasFullValidatorSet
          /\ pc' = [pc EXCEPT !.UpdateValidatorSet = "loaded"]
          /\ locals' = [locals EXCEPT !.fullValidatorSet = KeptInOrder]
          /\ UNCHANGED ret
       \/ /\ pc' = [pc EXCEPT !.UpdateValidatorSet = "returned"]   \* the read fails
          /\ ret' = Return("UpdateValidatorSet", "store")
          /\ UNCHANGED locals
    /\ UNCHANGED <<heap, delta>>
    /\ CopyFrame

\* stakeMap := newValidatorStakeMap(fullValidatorSet)
CopyStakeMap ==
    /\ pc.UpdateValidatorSet = "loaded"
    /\ LET made == newValidatorStakeMapRefs(heap, locals.fullValidatorSet)
       IN  /\ heap' = made.heap
           /\ locals' = [locals EXCEPT !.stakeMap = made.stakeMap]
    /\ pc' = [pc EXCEPT !.UpdateValidatorSet = "mapped"]
    /\ UNCHANGED <<ret, delta>>
    /\ CopyFrame

\* newValidatorSet := stakeMap.getActiveValidators(s.maxValidatorSetSize):
\* a new slice of the map's references, sorted
CopySelect ==
    /\ pc.UpdateValidatorSet = "mapped"
    /\ \E order \in Enumerations(DOMAIN locals.stakeMap) :
          LET sc == [a \in DOMAIN locals.stakeMap |-> heap[locals.stakeMap[a]]]
              selected == getActiveValidators(sc, order, maxValidatorSetSize)
          IN  locals' = [locals EXCEPT !.newValidatorSet =
                            [i \in 1..Len(selected) |->
                                locals.stakeMap[selected[i].Address]]]
    /\ pc' = [pc EXCEPT !.UpdateValidatorSet = "selected"]
    /\ UNCHANGED <<heap, ret, delta>>
    /\ CopyFrame

\* the addresses of the new set that the registry is asked about
CopyLookups ==
    {heap[r].Address : r \in {q \in Range(locals.newValidatorSet) :
        /\ heap[q].BlsKey = NilKey
        /\ heap[q].Address \notin {heap[c].Address : c \in Range(committee)}}}

\* the two loops over oldValidatorSet and newValidatorSet, and the delta
CopyClassify ==
    /\ pc.UpdateValidatorSet = "selected"
    /\ \E registry \in SUBSET CopyLookups :
          LET oldActiveMap == [a \in {heap[c].Address : c \in Range(committee)} |->
                                  CHOOSE c \in Range(committee) : heap[c].Address = a]
              addressesSet == {heap[r].Address : r \in Range(locals.newValidatorSet)}
              classified == classifyRefs(heap, locals.newValidatorSet, oldActiveMap,
                                registry,
                                [err |-> FALSE, Added |-> <<>>, Updated |-> <<>>,
                                 heap |-> heap])
          IN  /\ heap' = classified.heap
              /\ IF classified.err
                 THEN /\ pc' = [pc EXCEPT !.UpdateValidatorSet = "returned"]
                      /\ ret' = [op |-> "UpdateValidatorSet", err |-> "registry",
                                 registry |-> registry]
                      /\ UNCHANGED locals
                 ELSE /\ pc' = [pc EXCEPT !.UpdateValidatorSet = "classified"]
                      /\ locals' = [locals EXCEPT !.delta =
                            [Added |-> classified.Added,
                             Updated |-> classified.Updated,
                             Removed |-> removedBitmapOf(Deref(heap, committee),
                                                         addressesSet)]]
                      /\ ret' = [ret EXCEPT !.registry = registry]
    /\ UNCHANGED delta
    /\ CopyFrame

\* if s.logger.IsDebug() { oldValidatorSet.Copy().ApplyDelta(delta) };
\* return delta, nil
CopyReturn ==
    /\ pc.UpdateValidatorSet = "classified"
    /\ \/ UNCHANGED heap                                   \* not at debug level
       \/ LET copied == CopyAccountSet(heap, committee)
          IN  heap' = ApplyDeltaInPlace(copied.heap, copied.refs, locals.delta)
    /\ pc' = [pc EXCEPT !.UpdateValidatorSet = "returned"]
    /\ ret' = [ret EXCEPT !.op = "UpdateValidatorSet"]
    /\ delta' = [Added |-> Deref(heap, locals.delta.Added),
                 Updated |-> Deref(heap, locals.delta.Updated),
                 Removed |-> locals.delta.Removed]
    /\ UNCHANGED locals
    /\ CopyFrame

NextCopy ==
    \/ CopyLoad
    \/ CopyStakeMap
    \/ CopySelect
    \/ CopyClassify
    \/ CopyReturn

SpecCopy == InitCopy /\ [][NextCopy]_vars

----------------------------------------------------------------------------
(* AARelayerService: Start pops a transaction from the pool at every tick *)
(* and runs executeJob on it in a goroutine of its own.  A transaction is *)
(* an object held by reference (its ID); the calls to the pool, to the    *)
(* sender and to the state are one step each.                             *)

TxIDs == {"tx1", "tx2"}

NilError == "nil"

\* what SendTransaction returns as err: nothing, a net.Error, an error that
\* wraps a net.Error, or another error
NetErrors == {"net", "wrapped net"}
SendErrors == {NilError, "other"} \cup NetErrors

\* what WaitForReceipt returns as err
WaitErrors == {NilError, "net", "no receipt"}

InitialStatus == "pending"
StatusQueued == "queued"
StatusFailed == "failed"
StatusCompleted == "completed"

NilMined == [nil |-> TRUE]

\* the state transaction as the pool hands it out
NewStateTx == [Status |-> InitialStatus, Error |-> NilError, Gas |-> 0,
               Mined |-> NilMined]

\* the receipts WaitForReceipt may return for a hash
ReceiptsOf(hash) ==
    {[TransactionHash |-> hash, BlockNumber |-> n, GasUsed |-> g] :
        <<n, g>> \in {<<1, 1>>, <<2, 3>>}}

\* errors.As(err, &netErr)
IsNetError(err) == err \in NetErrors

\* an executeJob that hands every failed transaction back to the pool
afterSendPushOnAnyError(err) ==
    IF err # NilError THEN "push" ELSE "queued"

\* where executeJob goes once SendTransaction has returned err
afterSend(err) ==
    IF IsNetError(err) THEN "push"
    ELSE IF err # NilError THEN "fail"
    ELSE "queued"

\* populateStateTx
populateStateTx(stateTx, receipt) ==
    [stateTx EXCEPT !.Gas = receipt.GasUsed,
                    !.Mined = [BlockNumber |-> receipt.BlockNumber,
                               TxnHash |-> receipt.TransactionHash,
                               GasUsed |-> receipt.GasUsed]]

\* an executeJob that takes any return of WaitForReceipt for a receipt
afterWaitAlwaysCompleted(stateTx, receipt, err) ==
    populateStateTx([stateTx EXCEPT !.Status = StatusCompleted], receipt)

\* what executeJob makes of the transaction once WaitForReceipt has
\* returned receipt and err
afterWait(stateTx, receipt, err) ==
    IF err # NilError
    THEN [stateTx EXCEPT !.Error = err, !.Status = StatusFailed]
    ELSE populateStateTx([stateTx EXCEPT !.Status = StatusCompleted], receipt)

\* no executeJob runs on the transaction
NoJob == [pc |-> "none"]

\* an executeJob that has just been started on stateTx; the fields after pc
\* record what the job has done so far
NewJob(stateTx) ==
    [pc |-> "send", before |-> stateTx, sent |-> NilError, hash |-> NilError,
     waited |-> NilError, pushes |-> 0, updates |-> <<>>, statuses |-> <<>>,
     err |-> NilError]

\* state.Update(stateTx) as the state sees it: the transaction as it is at
\* the call, and whether the update went through
UpdateCall(id, ok) == [ID |-> id, tx |-> txs[id], ok |-> ok]

InitRelayer ==
    /\ store = {}
    /\ maxValidatorSetSize = MaxSetSize
    /\ ret = Return("idle", "nil")
    /\ oldValidatorSet = <<>>
    /\ delta = NoDelta
    /\ deltaAgain = NoDelta
    /\ stakeMap = EmptyStakeMap
    /\ iterOrder = <<>>
    /\ pending = <<>>
    /\ applied = <<>>
    /\ fullValidatorSet = {}
    /\ activeValidators = <<>>
    /\ NoBlock
    /\ NoRace
    /\ NoPool
    /\ NoCopies
    /\ aaPool \in Enumerations(TxIDs)
    /\ txs = [id \in TxIDs |-> NewStateTx]
    /\ aaState = <<>>
    /\ jobs = [id \in TxIDs |-> NoJob]

RelayerFrame ==
    UNCHANGED <<store, maxValidatorSetSize, ret, NoCall, mapVars, blockVars,
                raceVars, poolVars, copyVars>>

\* case <-ticker.C: stateTx := rs.pool.Pop(); go rs.executeJob(ctx, stateTx)
Start ==
    /\ \E i \in 1..Len(aaPool) :
          /\ aaPool' = SubSeq(aaPool, 1, i - 1) \o SubSeq(aaPool, i + 1, Len(aaPool))
          /\ jobs' = [jobs EXCEPT ![aaPool[i]] = NewJob(txs[aaPool[i]])]
    /\ UNCHANGED <<txs, aaState>>
    /\ RelayerFrame

\* hash, err := rs.txSender.SendTransaction(tx, rs.key) and the branch on err
SendTransaction ==
    /\ \E id \in TxIDs :
          /\ jobs[id].pc = "send"
          /\ \E err \in SendErrors :
                \/ /\ afterSend(err) = "push"
                   /\ jobs' = [jobs EXCEPT ![id].pc = "push", ![id].sent = err]
                   /\ UNCHANGED txs
                \/ /\ afterSend(err) = "fail"
                   /\ txs' = [txs EXCEPT ![id].Error = err]
                   /\ jobs' = [jobs EXCEPT ![id].pc = "update error", ![id].sent = err]
                \/ /\ afterSend(err) = "queued"
                   /\ txs' = [txs EXCEPT ![id].Status = StatusQueued]
                   /\ jobs' = [jobs EXCEPT ![id].pc = "update queued",
                                           ![id].sent = err,
                                           ![id].hash = id,
                                           ![id].statuses = Append(@, StatusQueued)]
    /\ UNCHANGED <<aaPool, aaState>>
    /\ RelayerFrame

\* rs.pool.Push(stateTx); return err
Push ==
    /\ \E id \in TxIDs :
          /\ jobs[id].pc = "push"
          /\ aaPool' = Append(aaPool, id)
          /\ jobs' = [jobs EXCEPT ![id].pc = "returned",
                                  ![id].pushes = @ + 1,
                                  ![id].err = jobs[id].sent]
    /\ UNCHANGED <<txs, aaState>>
    /\ RelayerFrame

\* rs.state.Update(stateTx) after a send that failed; the job returns the
\* error of the send, with that of the update when it failed too
UpdateError ==
    /\ \E id \in TxIDs :
          /\ jobs[id].pc = "update error"
          /\ \E ok \in BOOLEAN :
                /\ aaState' = Append(aaState, UpdateCall(id, ok))
                /\ jobs' = [jobs EXCEPT ![id].pc = "returned",
                                        ![id].updates = Append(@, ok),
                                        ![id].err = jobs[id].sent]
    /\ UNCHANGED <<aaPool, txs>>
    /\ RelayerFrame

\* rs.state.Update(stateTx) after stateTx.Status = StatusQueued; an error is
\* printed and the job goes on
UpdateQueued ==
    /\ \E id \in TxIDs :
          /\ jobs[id].pc = "update queued"
          /\ \E ok \in BOOLEAN :
                /\ aaState' = Append(aaState, UpdateCall(id, ok))
                /\ jobs' = [jobs EXCEPT ![id].pc = "wait",
                                        ![id].updates = Append(@, ok)]
    /\ UNCHANGED <<aaPool, txs>>
    /\ RelayerFrame

\* recipt, err := rs.txSender.WaitForReceipt(...) and the branch on err; a
\* nil err comes with a receipt
WaitForReceipt ==
    /\ \E id \in TxIDs :
          /\ jobs[id].pc = "wait"
          /\ \E err \in WaitErrors :
             \E receipt \in ReceiptsOf(jobs[id].hash) :
                /\ txs' = [txs EXCEPT ![id] = afterWait(txs[id], receipt, err)]
                /\ jobs' = [jobs EXCEPT
                      ![id].pc = "update final",
                      ![id].waited = err,
                      ![id].statuses = Append(@, afterWait(txs[id], receipt, err).Status)]
    /\ UNCHANGED <<aaPool, aaState>>
    /\ RelayerFrame

\* the last rs.state.Update(stateTx); its error is the job's
UpdateFinal ==
    /\ \E id \in TxIDs :
          /\ jobs[id].pc = "update final"
          /\ \E ok \in BOOLEAN :
                /\ aaState' = Append(aaState, UpdateCall(id, ok))
                /\ jobs' = [jobs EXCEPT ![id].pc = "returned",
                                        ![id].updates = Append(@, ok),
                                        ![id].err = IF ok THEN NilError ELSE "update"]
    /\ UNCHANGED <<aaPool, txs>>
    /\ RelayerFrame

NextRelayer ==
    \/ Start
    \/ SendTransaction
    \/ Push
    \/ UpdateError
    \/ UpdateQueued
    \/ WaitForReceipt
    \/ UpdateFinal

SpecRelayer == InitRelayer /\ [][NextRelayer]_vars

----------------------------------------------------------------------------
(* The committee order, stated on its own *)

AddressBefore(a, b) == a[1] < b[1] \/ (a[1] = b[1] /\ a[2] < b[2])

\* v ranks before w: more voting power, or as much and a lower address
RanksBefore(v, w) ==
    \/ v.VotingPower > w.VotingPower
    \/ v.VotingPower = w.VotingPower /\ AddressBefore(v.Address, w.Address)

InCommitteeOrder(validators) ==
    \A i, j \in 1..Len(validators) : i < j => RanksBefore(validators[i], validators[j])

AddressesOf(validators) == {validators[i].Address : i \in 1..Len(validators)}

\* who sits on a committee, and with how much voting power
Seats(validators) ==
    {<<validators[i].Address, validators[i].VotingPower>> : i \in 1..Len(validators)}

\* the next committee, selected from the Store contents on its own
NextCommittees ==
    {getActiveValidators(newValidatorStakeMap(store), order, maxValidatorSetSize) :
        order \in Enumerations(StoredAddresses)}

DeltaReturned == ret.op = "UpdateValidatorSet" /\ ret.err = "nil"

----------------------------------------------------------------------------
(* Claims *)

\* C1, as stated: applying the returned delta to currentCommittee gives
\* exactly the next committee, entry for entry
C1_AppliedDeltaIsNextCommittee ==
    DeltaReturned =>
        \A next \in NextCommittees : ApplyDelta(oldValidatorSet, delta) = next

\* C1, amended: applying the returned delta to currentCommittee gives a
\* committee that seats exactly the addresses of the next committee, each
\* once and with the voting power it has in the next committee
C1_AppliedDeltaSeatsNextCommittee ==
    DeltaReturned =>
        \A next \in NextCommittees :
            LET result == ApplyDelta(oldValidatorSet, delta)
            IN  /\ Seats(result) = Seats(next)
                /\ Len(result) = Len(next)
                /\ DistinctAddresses(result)

C1_Witness ==
    /\ DeltaReturned
    /\ delta.Added # <<>>
    /\ delta.Updated # <<>>
    /\ delta.Removed # {}
    /\ ret.registry # {}

\* C2: the output of getActiveValidators is in committee order (descending
\* voting power, ascending address bytes on ties) and has at most
\* maxValidatorSetSize entries
C2_ActiveValidatorsSortedAndCapped ==
    ret.op = "getActiveValidators" =>
        /\ InCommitteeOrder(activeValidators)
        /\ Len(activeValidators) <= maxValidatorSetSize

C2_Witness ==
    /\ ret.op = "getActiveValidators"
    /\ Len(activeValidators) = 2
    /\ maxValidatorSetSize = 2
    /\ \A a \in Addresses : a \in DOMAIN stakeMap /\ stakeMap[a].VotingPower = 1
    /\ iterOrder = <<A3, A2, A1>>

WithPower(sc) == {sc[a] : a \in {b \in DOMAIN sc : sc[b].VotingPower > 0}}

Min(x, y) == IF x < y THEN x ELSE y

\* C3: getActiveValidators returns the top min(maxSize, number of entries
\* with voting power) entries: each returned entry is an entry of the map
\* with voting power > 0, and every entry with voting power left out ranks
\* after every returned one
C3_ActiveValidatorsAreTheTop ==
    ret.op = "getActiveValidators" =>
        /\ Len(activeValidators) =
              Min(maxValidatorSetSize, Cardinality(WithPower(stakeMap)))
        /\ Range(activeValidators) \subseteq WithPower(stakeMap)
        /\ \A out \in WithPower(stakeMap) \ Range(activeValidators) :
              \A in \in Range(activeValidators) : RanksBefore(in, out)

C3_Witness ==
    /\ ret.op = "getActiveValidators"
    /\ maxValidatorSetSize = 2
    /\ DOMAIN stakeMap = Addresses
    /\ stakeMap[A1].VotingPower = 3
    /\ stakeMap[A2].VotingPower = 1
    /\ stakeMap[A3].VotingPower = 2
    /\ [i \in 1..Len(activeValidators) |-> activeValidators[i].Address] = <<A1, A3>>

\* the sum over the events of what each gives to (takes from) the address
RECURSIVE NetStake(_, _)
NetStake(events, address) ==
    IF events = <<>> THEN 0
    ELSE LET event == Head(events)
         IN  NetStake(Tail(events), address)
             + (IF event.From = ZeroAddress /\ event.To = address THEN event.Value ELSE 0)
             - (IF event.From # ZeroAddress /\ event.To = ZeroAddress
                   /\ event.From = address THEN event.Value ELSE 0)

BasePower(address) ==
    IF \E v \in fullValidatorSet : v.Address = address
    THEN (CHOOSE v \in fullValidatorSet : v.Address = address).VotingPower
    ELSE 0

\* C4: after the events applied so far, the voting power of every address
\* of the stake map is the power it had in the set the map was built from
\* plus the stakes minus the unstakes applied for it, and the map holds the
\* addresses of that set and those that were staked to
C4_VotingPowerIsNetStake ==
    /\ \A a \in DOMAIN stakeMap :
          stakeMap[a].VotingPower = BasePower(a) + NetStake(applied, a)
    /\ DOMAIN stakeMap =
          {v.Address : v \in fullValidatorSet}
          \cup {applied[i].To : i \in {k \in 1..Len(applied) : applied[k].From = ZeroAddress}}

C4_Witness ==
    /\ applied = <<TransferEvent(ZeroAddress, A1, 1), TransferEvent(ZeroAddress, A1, 1)>>
    /\ BasePower(A1) = 1
    /\ stakeMap[A1].VotingPower = 3

\* C5: after every addStake and removeStake every entry of the stake map
\* has IsActive = (VotingPower > 0)
C5_IsActiveIffVotingPower ==
    \A a \in DOMAIN stakeMap :
        stakeMap[a].IsActive = (stakeMap[a].VotingPower > 0)

\* C6: no entry of the persisted full validator set has a negative voting
\* power
C6_VotingPowerNeverNegative ==
    \A v \in store : v.VotingPower >= 0

\* C7: a second computation of the delta from the same Store contents, the
\* same committee and the same registry answers returns what the first
\* returned: the same Added, Updated and Removed, or an error again
C7_DeltaIsDeterministic ==
    ret.op = "UpdateValidatorSetAgain" =>
        /\ ret.err = ret.first
        /\ deltaAgain = delta

C7_Witness ==
    /\ ret.op = "UpdateValidatorSetAgain"
    /\ ret.err = "nil"
    /\ Len(deltaAgain.Added) = 2
    /\ deltaAgain.Added[1].VotingPower = deltaAgain.Added[2].VotingPower
    /\ Cardinality(store) = 3

\* C8: bit i of Removed is set iff i is a position of currentCommittee
\* (from 0) whose address is not on the next committee
C8_RemovedIsByPosition ==
    DeltaReturned =>
        \A next \in NextCommittees :
            delta.Removed =
                {i \in 0..(Len(oldValidatorSet) - 1) :
                    oldValidatorSet[i + 1].Address \notin AddressesOf(next)}

C8_Witness ==
    /\ DeltaReturned
    /\ AddressesOf(oldValidatorSet) = {A1, A2}
    /\ oldValidatorSet[2].Address = A2
    /\ delta.Removed = {1}
    /\ AddressesOf(delta.Added) = {A3}
    /\ delta.Updated = <<>>

PowerIn(validators, address) ==
    validators[CHOOSE i \in 1..Len(validators) : validators[i].Address = address].VotingPower

\* C9: every member of the next committee is classified once: new to the
\* committee, in Added only; seated with another voting power, in Updated
\* only; seated with the same voting power, in neither; and Added and
\* Updated name nobody else and nobody twice
C9_DeltaIsMinimal ==
    DeltaReturned =>
        \A next \in NextCommittees :
            LET seated == AddressesOf(oldValidatorSet)
                changed == {a \in AddressesOf(next) \cap seated :
                               PowerIn(next, a) # PowerIn(oldValidatorSet, a)}
            IN  /\ AddressesOf(delta.Added) = AddressesOf(next) \ seated
                /\ AddressesOf(delta.Updated) = changed
                /\ DistinctAddresses(delta.Added)
                /\ DistinctAddresses(delta.Updated)

C9_Witness ==
    /\ DeltaReturned
    /\ Len(delta.Added) = 1
    /\ Len(delta.Updated) = 0
    /\ delta.Removed = {}
    /\ Len(oldValidatorSet) = 1
    /\ Cardinality(store) = 3

\* C10: Added and Updated are each in committee order
C10_AddedAndUpdatedInCommitteeOrder ==
    DeltaReturned =>
        /\ InCommitteeOrder(delta.Added)
        /\ InCommitteeOrder(delta.Updated)

C10_Witness ==
    /\ DeltaReturned
    /\ Len(delta.Added) = 2
    /\ ret.registry # {}
    /\ delta.Added[1].VotingPower = delta.Added[2].VotingPower

\* the members of a next committee that are new to the committee, have no
\* BLS key and for which the registry does not answer
FailedLookups(next) ==
    {i \in 1..Len(next) :
        /\ next[i].Address \notin AddressesOf(oldValidatorSet)
        /\ next[i].BlsKey = NilKey
        /\ next[i].Address \notin ret.registry}

\* C11: when the registry lookup fails for a member of the next committee
\* that is new to the committee and has no BLS key, UpdateValidatorSet
\* returns an error and no delta; every entry of Added of a returned delta
\* has a BLS key
C11_FailedLookupIsFatal ==
    ret.op = "UpdateValidatorSet" /\ ret.err # "store" =>
        \A next \in NextCommittees :
            /\ FailedLookups(next) # {} => ret.err = "registry" /\ delta = NilDelta
            /\ ret.err = "nil" =>
                  \A i \in 1..Len(delta.Added) : delta.Added[i].BlsKey # NilKey

C11_Witness ==
    /\ ret.op = "UpdateValidatorSet"
    /\ ret.err = "registry"
    /\ delta = NilDelta
    /\ oldValidatorSet # <<>>
    /\ \E next \in NextCommittees :
          /\ Len(next) = 2
          /\ next[1].Address \in ret.registry
          /\ FailedLookups(next) = {2}

\* the step is a PostBlock that had transfer events and returned nil
BlockPersisted ==
    /\ Idle
    /\ ret'.op = "PostBlock"
    /\ ret'.err = "nil"
    /\ extracted'.events # <<>>

EntryOf(validatorSet, address) == CHOOSE v \in validatorSet : v.Address = address

StoredPower(address) ==
    IF address \in StoredAddresses THEN EntryOf(store, address).VotingPower ELSE 0

StakedTo(events) ==
    {events[i].To : i \in {k \in 1..Len(events) : events[k].From = ZeroAddress}}

\* the addresses PostBlock asks the registry about: those stored without a
\* BLS key and those the events of the block stake to for the first time
LookedUp(events) ==
    StoredUnresolved \cup (StakedTo(events) \ StoredAddresses)

\* C12: a PostBlock in which registry lookups fail still persists the full
\* set: one entry per stored or staked-to address; an entry whose lookup
\* failed with its address, the voting power the events of the block give
\* it and no BLS key; every other entry as it is persisted when no lookup
\* fails
C12_FailedLookupKeepsEntry ==
    [][BlockPersisted =>
          LET events == extracted'.events
              failed == LookedUp(events) \ ret'.registry
              power(a) == StoredPower(a) + NetStake(events, a)
          IN  /\ {v.Address : v \in store'} = StoredAddresses \cup StakedTo(events)
              /\ Cardinality(store') = Cardinality(StoredAddresses \cup StakedTo(events))
              /\ \A a \in failed :
                    \E v \in store' : /\ v.Address = a
                                       /\ v.VotingPower = power(a)
                                       /\ v.BlsKey = NilKey
              /\ \A a \in (StoredAddresses \cup StakedTo(events)) \ failed :
                    ValidatorMetadata(a, power(a),
                        IF a \in LookedUp(events) THEN SomeKey
                        ELSE EntryOf(store, a).BlsKey,
                        power(a) > 0) \in store'
    ]_vars

C12_Witness ==
    /\ ret.op = "PostBlock"
    /\ ret.err = "nil"
    /\ Len(extracted.events) = 2
    /\ ret.registry # {}
    /\ \E v \in store : /\ v.BlsKey = NilKey
                         /\ v.VotingPower > 0
                         /\ v.Address \in StakedTo(extracted.events)
                         /\ v.Address \notin ret.registry

\* C13: no record is deleted from the Store: across every PostEpoch and
\* PostBlock each stored address stays stored, and a validator whose voting
\* power reaches zero stays stored with IsActive = false
C13_RecordsAreNeverDeleted ==
    [][/\ StoredAddresses \subseteq {v.Address : v \in store'}
       /\ \A v \in store :
             \A w \in store' :
                 (w.Address = v.Address /\ v.VotingPower > 0 /\ w.VotingPower = 0)
                     => ~w.IsActive
    ]_vars

\* C14: after a PostBlock that wrote the Store every stored entry has
\* IsActive = (VotingPower > 0), the entries replaced by the record of the
\* registry included
C14_PersistedIsActiveIffVotingPower ==
    (ret.op = "PostBlock" /\ ret.err = "nil" /\ extracted.events # <<>>) =>
        \A v \in store : v.IsActive = (v.VotingPower > 0)

C14_Witness ==
    /\ ret.op = "PostBlock"
    /\ ret.err = "nil"
    /\ extracted.events # <<>>
    /\ \E v \in store : /\ v.Address \in ret.registry
                         /\ v.BlsKey = SomeKey
                         /\ v.VotingPower = 0
                         /\ ~v.IsActive
    /\ \E v \in store : v.VotingPower > 0 /\ v.IsActive

\* a log of the validator set contract, in a receipt with success status,
\* that carries the Transfer signature and does not decode
HasMalformedLog(block) ==
    \E i \in 1..Len(block) :
        /\ block[i].Status = ReceiptSuccess
        /\ \E j \in 1..Len(block[i].Logs) :
              /\ block[i].Logs[j].Address = validatorSetContract
              /\ block[i].Logs[j].Kind = "Malformed"

\* an unstake event for an address that is not stored and that no earlier
\* event of the block staked to
UnstakesUnknown(events) ==
    \E i \in 1..Len(events) :
        /\ events[i].From # ZeroAddress
        /\ events[i].To = ZeroAddress
        /\ events[i].From \notin StoredAddresses
        /\ \A j \in 1..(i - 1) :
              ~(events[j].From = ZeroAddress /\ events[j].To = events[i].From)

\* C15: a PostBlock that fails on a malformed matching log, on a read of
\* the Store or on an unstake event for an address without an entry leaves
\* the Store as it was, and each of these faults ends the call with a
\* failure, never with nil
C15_FailedBlockLeavesStore ==
    [][(Idle /\ ret'.op = "PostBlock") =>
          /\ ret'.err \in {"parse", "store", "panic"} => store' = store
          /\ HasMalformedLog(fullBlock') => ret'.err = "parse"
          /\ (~HasMalformedLog(fullBlock') /\ UnstakesUnknown(extracted'.events))
                => ret'.err \in {"store", "panic"}
    ]_vars

C15_Witness ==
    /\ ret.op = "PostBlock"
    /\ ret.err = "panic"
    /\ Len(extracted.events) = 2
    /\ extracted.events[1] = TransferEvent(ZeroAddress, A1, 1)
    /\ extracted.events[2] = TransferEvent(A2, ZeroAddress, 1)
    /\ StoredAddresses = {A3}

\* the logs of the receipts with success status, receipt after receipt
RECURSIVE LogsOfSuccessful(_)
LogsOfSuccessful(block) ==
    IF block = <<>> THEN <<>>
    ELSE (IF Head(block).Status = ReceiptSuccess THEN Head(block).Logs ELSE <<>>)
         \o LogsOfSuccessful(Tail(block))

IsTransferOfContract(log) ==
    log.Address = validatorSetContract /\ log.Kind = "Transfer"

\* C16: getTransferEventsFromReceipts returns the transfer events of the
\* logs that are in a receipt with success status, come from the validator
\* set contract and match the Transfer signature, in the order of the
\* receipts and of the logs within a receipt; other receipts and logs are
\* passed over without error; a log of the contract that fails to parse
\* makes it return an error and no events
C16_EventsOfSuccessfulReceiptsInOrder ==
    ret.op = "getTransferEventsFromReceipts" =>
        IF HasMalformedLog(fullBlock)
        THEN extracted.err /\ extracted.events = <<>>
        ELSE /\ ~extracted.err
             /\ LET matching == SelectSeq(LogsOfSuccessful(fullBlock),
                                          IsTransferOfContract)
                IN  extracted.events =
                        [i \in 1..Len(matching) |->
                            TransferEvent(matching[i].From, matching[i].To,
                                          matching[i].Value)]

C16_Witness ==
    /\ ret.op = "getTransferEventsFromReceipts"
    /\ fullBlock = <<Receipt(ReceiptFailed, <<MalformedLog>>),
                     Receipt(ReceiptSuccess, <<UnstakeLog, StakeLog>>)>>
    /\ ~extracted.err
    /\ extracted.events = <<TransferEvent(A2, ZeroAddress, 1),
                            TransferEvent(ZeroAddress, A1, 1)>>

\* C17: adding a message that the pool holds (same event index, hash and
\* signature) returns no error and leaves the messages stored under its
\* index and hash as they were
C17_AddMessageIsIdempotent ==
    [][(Idle /\ ret'.op = "AddMessage" /\ InPool(ret'.msg)) =>
          /\ ret'.err = "nil"
          /\ messages'[ret'.msg.Index][ret'.msg.Hash]
                = messages[ret'.msg.Index][ret'.msg.Hash]
          /\ messages' = messages
    ]_vars

\* the message of the test is added a second time: still one message
C17_Witness ==
    /\ ret.op = "AddMessage"
    /\ ret.err = "nil"
    /\ ret.known
    /\ ret.msg = SAM(2, "h1", "s1")
    /\ Len(messages[2]["h1"]) = 1

\* C18: Pop returns a verified SAM only when the pool holds messages for
\* the index after lastProcessedIndex and the verifier reports quorum for
\* them; it then drops the bucket of that index and sets lastProcessedIndex
\* to it; a Pop that returns nil changes neither the messages nor
\* lastProcessedIndex
C18_PopTakesTheNextIndex ==
    [][(Idle /\ ret'.op = "Pop") =>
          LET expectedIndex == lastProcessedIndex + 1
          IN  IF ret'.sam # NilSAM
              THEN /\ expectedIndex \in DOMAIN messages
                   /\ \E h \in DOMAIN messages[expectedIndex] :
                         /\ ret'.sam = messages[expectedIndex][h]
                         /\ Len(ret'.sam) >= verifier.quorum
                   /\ expectedIndex \notin DOMAIN messages'
                   /\ lastProcessedIndex' = expectedIndex
              ELSE /\ messages' = messages
                   /\ lastProcessedIndex' = lastProcessedIndex
    ]_vars

C18_Witness ==
    /\ ret.op = "Pop"
    /\ Len(ret.sam) = 2
    /\ verifier.quorum = 2
    /\ lastProcessedIndex = 2
    /\ messages = <<>>

PowersOf(validatorSet) == {<<v.Address, v.VotingPower>> : v \in validatorSet}

PowerOf(validatorSet, address) ==
    IF \E v \in validatorSet : v.Address = address
    THEN EntryOf(validatorSet, address).VotingPower
    ELSE 0

\* the Store as it was when the block came in
StoreBeforeBlock == IF pc.PostBlock = "done" THEN fullValidatorSet ELSE store

\* C19: the full set from which an UpdateValidatorSet that runs side by
\* side with a PostBlock selects the next committee is the Store as it was
\* before the block or as it is after all events of the block: its voting
\* powers are those of before the block, or those plus the net stake of all
\* events of the block, never those after some of the events only
C19_DeltaSeesWholeBlocksOnly ==
    pc.UpdateValidatorSet \in {"loaded", "selected"} =>
        \/ PowersOf(loaded) = PowersOf(StoreBeforeBlock)
        \/ PowersOf(loaded) =
              {<<a, PowerOf(StoreBeforeBlock, a) + NetStake(extracted.events, a)>> :
                  a \in {v.Address : v \in StoreBeforeBlock}
                        \cup StakedTo(extracted.events)}

\* the set is loaded and the committee selected while the block is half
\* applied
C19_Witness ==
    /\ pc.UpdateValidatorSet = "selected"
    /\ pc.PostBlock = "loop"
    /\ Len(applied) = 1
    /\ Len(pending) = 1
    /\ IsStake(applied[1])
    /\ PowersOf({stakeMap[a] : a \in DOMAIN stakeMap}) # PowersOf(loaded)
    /\ loaded = store
    /\ Len(activeValidators) = 2

\* C20: an entry stored without a BLS key is looked up again by every
\* later PostBlock that has events: when the lookup succeeds the entry is
\* stored with a BLS key, its address and its voting power (as the events
\* of the block leave it); when it fails the entry stays stored without a
\* BLS key; a PostBlock without events looks nothing up and leaves the
\* entry as it is
C20_UnresolvedEntryIsLookedUpAgain ==
    [][(Idle /\ ret'.op = "PostBlock") =>
          /\ extracted'.events = <<>> => store' = store
          /\ BlockPersisted =>
                \A v \in store :
                    v.BlsKey = NilKey =>
                        LET power == v.VotingPower + NetStake(extracted'.events, v.Address)
                        IN  IF v.Address \in ret'.registry
                            THEN ValidatorMetadata(v.Address, power, SomeKey, power > 0)
                                     \in store'
                            ELSE ValidatorMetadata(v.Address, power, NilKey, power > 0)
                                     \in store'
    ]_vars

\* an entry that was stored without a BLS key before the block (the block
\* does not stake to it) and is stored with one after it
C20_Witness ==
    /\ ret.op = "PostBlock"
    /\ ret.err = "nil"
    /\ extracted.events = <<TransferEvent(ZeroAddress, A1, 1)>>
    /\ \E v \in store : /\ v.Address = A2
                         /\ v.Address \in ret.registry
                         /\ v.BlsKey = SomeKey
                         /\ v.VotingPower = 1
    /\ \E v \in store : v.Address = A3 /\ v.BlsKey = NilKey

\* what the Store holds, read through the references it hands out
StoreContents == {heap[r] : r \in kept}

\* the references the stake map of the call holds its entries by
StakeMapRefs == {locals.stakeMap[a] : a \in DOMAIN locals.stakeMap}

\* C21: UpdateValidatorSet is read-only.  At every statement of the call,
\* and when it has returned a delta or an error, the Store holds the full
\* set it held when the call began, the caller's committee has the entries
\* it was handed, in their order and with their voting powers, and the
\* stake map of the call shares no entry with the Store's set or with the
\* committee
C21_UpdateValidatorSetIsReadOnly ==
    /\ StoreContents = store
    /\ Deref(heap, committee) = oldValidatorSet
    /\ StakeMapRefs \cap (kept \cup Range(committee)) = {}

\* a returned delta that updates the first member of the committee, adds a
\* validator resolved by the registry and removes the second member, with
\* the debug branch taken: the copy of the first member was overwritten
C21_Witness ==
    /\ pc.UpdateValidatorSet = "returned"
    /\ ret.err = "nil"
    /\ Len(delta.Updated) = 1
    /\ delta.Updated[1].Address = oldValidatorSet[1].Address
    /\ Len(delta.Added) = 1
    /\ delta.Added[1].Address \in ret.registry
    /\ delta.Removed = {1}
    /\ \E r \in DOMAIN heap :
          /\ r \notin kept \cup Range(committee) \cup StakeMapRefs
          /\ heap[r].Address = oldValidatorSet[1].Address
          /\ heap[r].VotingPower # oldValidatorSet[1].VotingPower

\* the transactions state.Update was handed for id, call by call
UpdatesOf(id) ==
    LET OfId(call) == call.ID = id
        calls == SelectSeq(aaState, OfId)
    IN  [i \in 1..Len(calls) |-> calls[i].tx]

\* how often the pool holds id
TimesInPool(id) == Cardinality({i \in 1..Len(aaPool) : aaPool[i] = id})

\* C22: an executeJob whose SendTransaction failed.  With a network error
\* (a net.Error, or an error that wraps one) the transaction was pushed
\* back to the pool once, is in the pool once, state.Update was not called
\* and the transaction is as it was when the job began, Status and Error
\* included.  With any other error the transaction was not pushed back and
\* is not in the pool, its Error is that error, and state.Update was called
\* once, with the transaction carrying that Error; this holds whether the
\* update went through or not
C22_FailedSendIsPushedBackOrRecorded ==
    \A id \in TxIDs :
        (jobs[id].pc = "returned" /\ jobs[id].sent # NilError) =>
            IF jobs[id].sent \in NetErrors
            THEN /\ jobs[id].pushes = 1
                 /\ TimesInPool(id) = 1
                 /\ jobs[id].updates = <<>>
                 /\ UpdatesOf(id) = <<>>
                 /\ txs[id] = jobs[id].before
            ELSE /\ jobs[id].pushes = 0
                 /\ TimesInPool(id) = 0
                 /\ txs[id] = [jobs[id].before EXCEPT !.Error = jobs[id].sent]
                 /\ Len(jobs[id].updates) = 1
                 /\ UpdatesOf(id) = <<txs[id]>>

\* one job was handed an error that wraps a net.Error and has pushed its
\* transaction back; the other was handed another error, has recorded it
\* and its state.Update failed
C22_Witness ==
    /\ jobs["tx1"].pc = "returned"
    /\ jobs["tx1"].sent = "wrapped net"
    /\ aaPool = <<"tx1">>
    /\ jobs["tx2"].pc = "returned"
    /\ jobs["tx2"].sent = "other"
    /\ jobs["tx2"].updates = <<FALSE>>
    /\ txs["tx2"].Error = "other"

\* an executeJob whose SendTransaction succeeded
Sent(id) ==
    /\ jobs[id].pc \in {"update queued", "wait", "update final", "returned"}
    /\ jobs[id].sent = NilError

\* C23: once SendTransaction has succeeded the Status of the transaction
\* is set to Queued and then to one terminal status, and state.Update is
\* handed the transaction after each of the two, whether the update with
\* Queued went through or not: Completed, with the mined data of the
\* receipt, if and only if WaitForReceipt returned no error, else Failed
\* with that error as Error and no mined data.  The transaction is never
\* pushed back to the pool on this path
C23_SentIsQueuedThenTerminal ==
    \A id \in TxIDs :
        Sent(id) =>
            /\ jobs[id].pushes = 0
            /\ TimesInPool(id) = 0
            /\ jobs[id].pc \in {"update queued", "wait"} =>
                  /\ jobs[id].statuses = <<StatusQueued>>
                  /\ txs[id].Status = StatusQueued
            /\ jobs[id].pc = "wait" =>
                  /\ Len(UpdatesOf(id)) = 1
                  /\ UpdatesOf(id)[1].Status = StatusQueued
            /\ jobs[id].pc \in {"update final", "returned"} =>
                  /\ jobs[id].statuses = <<StatusQueued, txs[id].Status>>
                  /\ txs[id].Status \in {StatusCompleted, StatusFailed}
                  /\ txs[id].Status = StatusCompleted <=> jobs[id].waited = NilError
                  /\ txs[id].Status = StatusCompleted =>
                        /\ txs[id].Mined # NilMined
                        /\ txs[id].Mined.TxnHash = jobs[id].hash
                  /\ txs[id].Status = StatusFailed =>
                        /\ txs[id].Error = jobs[id].waited
                        /\ txs[id].Mined = NilMined
            /\ jobs[id].pc = "returned" =>
                  /\ Len(UpdatesOf(id)) = 2
                  /\ UpdatesOf(id)[1].Status = StatusQueued
                  /\ UpdatesOf(id)[2] = txs[id]

\* one transaction is Completed with its mined data although the update
\* with Queued failed; the other is Failed on a network error of
\* WaitForReceipt and is not in the pool
C23_Witness ==
    /\ jobs["tx1"].pc = "returned"
    /\ jobs["tx1"].sent = NilError
    /\ jobs["tx1"].updates = <<FALSE, TRUE>>
    /\ jobs["tx1"].statuses = <<StatusQueued, StatusCompleted>>
    /\ txs["tx1"].Mined # NilMined
    /\ jobs["tx2"].pc = "returned"
    /\ jobs["tx2"].sent = NilError
    /\ jobs["tx2"].waited = "net"
    /\ txs["tx2"].Status = StatusFailed
    /\ aaPool = <<>>

====
